---- MODULE Spec2Model ----
(***************************************************************************)
(* Model of src/network.c: the connection table g_conns, the allocation    *)
(* counter g_conn_count and the six operations per transport (UDP, TCP).   *)
(*                                                                         *)
(* The operating system is modelled by a descriptor table os_fds: socket() *)
(* returns the lowest unused descriptor or -1, bind() fails on a port      *)
(* conflict and may fail otherwise, close() of a descriptor that is not    *)
(* open is a no-op (EBADF, which the code ignores).                        *)
(*                                                                         *)
(* assert() is modelled as compiled in (no NDEBUG): a failed assertion     *)
(* ends the program (status = "aborted").  A dereference of the NULL       *)
(* pointer returned by get_network_conn, and an access to g_conns[32], are *)
(* undefined behaviour: status = "undefined", after which nothing more is  *)
(* modelled.                                                               *)
(*                                                                         *)
(* The connection record has no transport field; the caller is assumed to  *)
(* use the network_udp_* functions on handles returned by                  *)
(* network_udp_init_conn and the network_tcp_* functions on handles        *)
(* returned by network_tcp_init_conn (ghost[h].kind).                      *)
(***************************************************************************)
EXTENDS Integers, Sequences, FiniteSets

(* ---- program constants ------------------------------------------------ *)
MAX_NETWORK_CONNECTIONS == 32
CONNECTION_TIMEOUT_SEC == 3
SOCKADDR_IN_SIZE == 16

NETWORK_CONN_STATE_UNITIALIZED == "UNITIALIZED"
NETWORK_CONN_STATE_DISCONNECTED == "DISCONNECTED"
NETWORK_CONN_STATE_CONNECTED == "CONNECTED"

(* ---- bounds of the model ---------------------------------------------- *)
\* init calls made in Spec
MaxInits == 2
\* descriptors the process may have open for sockets (3 .. 2 + MaxFds)
MaxFds == 2
\* threads calling init concurrently in SpecConc
MaxThreads == 2
\* bytes passed to send / receive
MaxLen == 2

TableIdx == 0 .. (MAX_NETWORK_CONNECTIONS - 1)
SockFds == 3 .. (2 + MaxFds)
\* ports given to init: 0 (no bind) and one port to bind
InitPorts == {0, 5}
\* remote endpoints (address, port), never the zero endpoint
Peers == {[addr |-> 1, port |-> 7], [addr |-> 2, port |-> 9]}
NoPeer == [addr |-> 0, port |-> 0]
\* handles the caller passes: those init can have allocated, and the two
\* invalid ones just outside the table
HandleInputs == {-1} \cup (0 .. (MaxInits - 1)) \cup {MAX_NETWORK_CONNECTIONS}

VARIABLES
    g_conn_count,   \* static atomic_int g_conn_count
    g_conns,        \* static struct network_conn g_conns[32]
    os_fds,         \* the process's socket descriptors
    status,         \* "running" | "aborted" | "undefined"
    ghost,          \* per handle: transport of its successful init, lifetime, closes
    last,           \* the last call: operation, handle, result, syscalls, log
    thr             \* SpecConc: each thread's position in init and its locals

vars == <<g_conn_count, g_conns, os_fds, status, ghost, last, thr>>

(* ---- struct network_conn ---------------------------------------------- *)
ZeroAddr == [family |-> "AF_UNSPEC", addr |-> 0, port |-> 0]

\* a record of the zero-initialised static table
ZeroConn ==
    [fd |-> 0, server |-> FALSE, state |-> NETWORK_CONN_STATE_UNITIALIZED,
     sin_me |-> ZeroAddr, sin_oth |-> ZeroAddr, slen |-> 0]

\* get_network_conn: the record's index, or "NULL"
InTable(conn_id) == conn_id >= 0 /\ conn_id < MAX_NETWORK_CONNECTIONS

(* ---- the operating system --------------------------------------------- *)
ClosedFd ==
    [open |-> FALSE, proto |-> "none", port |-> 0, owner |-> -1,
     timeo |-> 0, reuse |-> FALSE, connected |-> FALSE]

IsOpen(tbl, fd) == fd \in SockFds /\ tbl[fd].open

\* socket(): -1, or the lowest descriptor that is not open (POSIX)
SocketResults(tbl) ==
    {-1} \cup {fd \in SockFds : ~tbl[fd].open /\ \A o \in SockFds : o < fd => tbl[o].open}

OsSocket(tbl, fd, proto, owner) ==
    [tbl EXCEPT ![fd] = [open |-> TRUE, proto |-> proto, port |-> 0,
                         owner |-> owner, timeo |-> 0, reuse |-> FALSE,
                         connected |-> FALSE]]

OsSetTimeouts(tbl, fd) == [tbl EXCEPT ![fd].timeo = CONNECTION_TIMEOUT_SEC]

OsSetReuse(tbl, fd) == [tbl EXCEPT ![fd].reuse = TRUE]

\* bind(): fails when another open socket of the protocol holds the port and
\* address reuse is off; may fail for other reasons (EACCES, ...)
BindResults(tbl, fd, port) ==
    IF \E o \in SockFds : /\ o # fd
                          /\ tbl[o].open
                          /\ tbl[o].proto = tbl[fd].proto
                          /\ tbl[o].port = port
                          /\ ~(tbl[o].reuse /\ tbl[fd].reuse)
    THEN {FALSE}
    ELSE {TRUE, FALSE}

OsBind(tbl, fd, port) == [tbl EXCEPT ![fd].port = port]

\* connect(): fails on a descriptor that is not open (EBADF) and on a stream
\* socket that is connected already (EISCONN); may fail otherwise
ConnectResults(tbl, fd) ==
    IF IsOpen(tbl, fd) /\ ~(tbl[fd].proto = "tcp" /\ tbl[fd].connected)
    THEN {TRUE, FALSE}
    ELSE {FALSE}

OsConnect(tbl, fd) == [tbl EXCEPT ![fd].connected = TRUE]

\* close(): EBADF on a descriptor that is not open
OsClose(tbl, fd) == IF IsOpen(tbl, fd) THEN [tbl EXCEPT ![fd] = ClosedFd] ELSE tbl

(* ---- the record of a call --------------------------------------------- *)
PreState(h) == IF InTable(h) THEN g_conns[h].state ELSE "none"

\* one system call on a descriptor: own = the descriptor is open and was
\* created by the init of the record the operation acts on
Sys(call, tbl, fd, h) ==
    [call |-> call, fd |-> fd, open |-> IsOpen(tbl, fd),
     own |-> IsOpen(tbl, fd) /\ tbl[fd].owner = h]

\* perror: the label given to perror(), "" when nothing is logged; hexdump:
\* whether the call emitted its trace; peer: the datagram's sender (receive)
\* or the destination used (send)
\* pre: the state of the record on entry; errno: the error of a failed
\* recvfrom() / recv(), "none" otherwise
Returned(op, h, ret, sys, perr, dump, peer) ==
    [op |-> op, conn_id |-> h, outcome |-> "returned", ret |-> ret, sys |-> sys,
     perror |-> perr, hexdump |-> dump, peer |-> peer, pre |-> PreState(h),
     errno |-> "none"]

Aborted(op, h) ==
    [op |-> op, conn_id |-> h, outcome |-> "aborted", ret |-> 0, sys |-> <<>>,
     perror |-> "", hexdump |-> FALSE, peer |-> NoPeer, pre |-> PreState(h),
     errno |-> "none"]

Undefined(op, h, ret) ==
    [op |-> op, conn_id |-> h, outcome |-> "undefined", ret |-> ret, sys |-> <<>>,
     perror |-> "", hexdump |-> FALSE, peer |-> NoPeer, pre |-> PreState(h),
     errno |-> "none"]

NoCall ==
    [op |-> "none", conn_id |-> -1, outcome |-> "returned", ret |-> 0, sys |-> <<>>,
     perror |-> "", hexdump |-> FALSE, peer |-> NoPeer, pre |-> "none",
     errno |-> "none"]

ZeroGhost == [kind |-> "none", life |-> "never", nclose |-> 0]

NoThread == [pc |-> "idle", conn_id |-> -1, proto |-> "none"]

Threads == 1 .. MaxThreads

(* ---- the state after program start ------------------------------------ *)
Init ==
    /\ g_conn_count = 0
    /\ g_conns = [i \in TableIdx |-> ZeroConn]
    /\ os_fds = [fd \in SockFds |-> ClosedFd]
    /\ status = "running"
    /\ ghost = [i \in TableIdx |-> ZeroGhost]
    /\ last = NoCall
    /\ thr = [t \in Threads |-> NoThread]

\* a failed assert(): abort() before anything else is done
Abort(op, h) ==
    /\ status' = "aborted"
    /\ last' = Aborted(op, h)
    /\ UNCHANGED <<g_conn_count, g_conns, os_fds, ghost, thr>>

\* conn is NULL (handle outside the table) and conn->state is read through it
NullDeref(op, h) ==
    /\ status' = "undefined"
    /\ last' = Undefined(op, h, 0)
    /\ UNCHANGED <<g_conn_count, g_conns, os_fds, ghost, thr>>

(* ---- init ------------------------------------------------------------- *)
\* mutant: a plain read of the counter, with no increment
FetchAddLost(count) == count

\* mutant: the counter starts again at 0 when it reaches the bound on init calls
FetchAddWrap(count) == IF count + 1 >= MaxInits THEN 0 ELSE count + 1

\* atomic_fetch_add(&g_conn_count, 1): the counter's new value (the old one
\* is the call's result)
FetchAdd(count) == count + 1

\* assert(conn->state == NETWORK_CONN_STATE_UNITIALIZED)
InitPre(conn) == conn.state = NETWORK_CONN_STATE_UNITIALIZED

\* conn = &g_conns[conn_id] with conn_id >= 32: the assert reads, and the
\* body writes, memory behind the table.  The assert may fail on what it
\* reads; otherwise the call goes on and returns -1 or conn_id.
InitOutOfTable(op, conn_id) ==
    /\ \E st \in {"aborted", "undefined"} :
          /\ status' = st
          /\ IF st = "aborted"
             THEN last' = Aborted(op, conn_id)
             ELSE \E ret \in {-1, conn_id} : last' = Undefined(op, conn_id, ret)
    /\ UNCHANGED <<g_conns, os_fds, ghost>>

\* mutant: the bind failure path returns without close()
UdpBindFailedLeak(tbl, fd) == tbl

\* the descriptor table after the bind failure path: perror, close(conn->fd)
UdpBindFailedFds(tbl, fd) == OsClose(tbl, fd)

\* network_udp_init_conn after conn_id has been allocated
UdpInitBody(conn_id, port, server) ==
    IF ~InTable(conn_id) THEN InitOutOfTable("udp_init", conn_id)
    ELSE IF ~InitPre(g_conns[conn_id])
    THEN /\ status' = "aborted"
         /\ last' = Aborted("udp_init", conn_id)
         /\ UNCHANGED <<g_conns, os_fds, ghost>>
    ELSE \E fd \in SocketResults(os_fds) :
        IF fd = -1
        THEN /\ g_conns' = [g_conns EXCEPT ![conn_id].fd = -1]
             /\ ghost' = [ghost EXCEPT ![conn_id].life = "failed"]
             /\ last' = Returned("udp_init", conn_id, -1,
                                 <<Sys("socket", os_fds, -1, conn_id)>>, "socket", FALSE, NoPeer)
             /\ UNCHANGED <<os_fds, status>>
        ELSE LET conn == [g_conns[conn_id] EXCEPT
                             !.fd = fd, !.server = server,
                             !.sin_me = [family |-> "AF_INET", addr |-> 0, port |-> port]]
                 opened == OsSetTimeouts(OsSocket(os_fds, fd, "udp", conn_id), fd)
                 sock == Sys("socket", opened, fd, conn_id)
             IN  \E ok \in (IF port > 0 THEN BindResults(opened, fd, port) ELSE {TRUE}) :
                    /\ status' = status
                    /\ IF ok
                       THEN /\ g_conns' = [g_conns EXCEPT ![conn_id] =
                                   [conn EXCEPT !.state = NETWORK_CONN_STATE_DISCONNECTED]]
                            /\ os_fds' = (IF port > 0 THEN OsBind(opened, fd, port) ELSE opened)
                            /\ ghost' = [ghost EXCEPT ![conn_id].kind = "udp",
                                                      ![conn_id].life = "live"]
                            /\ last' = Returned("udp_init", conn_id, conn_id,
                                   IF port > 0 THEN <<sock, Sys("bind", opened, fd, conn_id)>>
                                   ELSE <<sock>>, "", FALSE, NoPeer)
                       ELSE /\ g_conns' = [g_conns EXCEPT ![conn_id] = conn]
                            /\ os_fds' = UdpBindFailedFds(opened, fd)
                            /\ ghost' = [ghost EXCEPT ![conn_id].life = "failed"]
                            /\ last' = Returned("udp_init", conn_id, -1,
                                   <<sock, Sys("bind", opened, fd, conn_id),
                                     Sys("close", opened, fd, conn_id)>>, "bind", FALSE, NoPeer)

network_udp_init_conn(port, server) ==
    /\ status = "running"
    /\ g_conn_count' = FetchAdd(g_conn_count)
    /\ UdpInitBody(g_conn_count, port, server)
    /\ UNCHANGED thr

(* ---- UDP operations on a handle --------------------------------------- *)
\* assert(conn->state == NETWORK_CONN_STATE_DISCONNECTED) of connect
UdpConnectPre(conn) == conn.state = NETWORK_CONN_STATE_DISCONNECTED

\* the record as network_udp_connect leaves it
\* mutant: connect marks the record Connected without storing the peer endpoint
UdpConnectedNoPeer(conn, addr, port) ==
    [conn EXCEPT !.state = NETWORK_CONN_STATE_CONNECTED]

UdpConnected(conn, addr, port) ==
    [conn EXCEPT !.sin_oth = [family |-> "AF_INET", addr |-> addr, port |-> port],
                 !.slen = SOCKADDR_IN_SIZE,
                 !.state = NETWORK_CONN_STATE_CONNECTED]

network_udp_connect(conn_id, addr, port) ==
    /\ status = "running"
    /\ IF ~InTable(conn_id) THEN NullDeref("udp_connect", conn_id)
       ELSE IF ~UdpConnectPre(g_conns[conn_id]) THEN Abort("udp_connect", conn_id)
       ELSE /\ g_conns' = [g_conns EXCEPT ![conn_id] = UdpConnected(@, addr, port)]
            /\ last' = Returned("udp_connect", conn_id, 0, <<>>, "", FALSE,
                                [addr |-> addr, port |-> port])
            /\ UNCHANGED <<g_conn_count, os_fds, status, ghost, thr>>

\* mutant: send asserts only that the record is initialised
UdpSendPreLoose(conn) == conn.state # NETWORK_CONN_STATE_UNITIALIZED

\* assert(conn->state == NETWORK_CONN_STATE_CONNECTED) of send
UdpSendPre(conn) == conn.state = NETWORK_CONN_STATE_CONNECTED

\* sendto(): -1, or the whole datagram; -1 (EBADF) on a descriptor not open
SendtoResults(tbl, fd, len) == IF IsOpen(tbl, fd) THEN {-1, len} ELSE {-1}

\* the record after a send
\* mutant: a failed sendto() drops the record back to Disconnected
UdpSentDropOnError(conn, sent_bytes) ==
    IF sent_bytes < 0 THEN [conn EXCEPT !.state = NETWORK_CONN_STATE_DISCONNECTED] ELSE conn

UdpSent(conn, sent_bytes) == conn

\* whether send emits its trace: snprintf and hexdump follow the perror
\* unconditionally
\* mutant: a send is traced only when it sent something
SendHexdumpOnSuccess(sent_bytes) == sent_bytes >= 0

SendHexdump(sent_bytes) == TRUE

network_udp_send(conn_id, len) ==
    /\ status = "running"
    /\ IF ~InTable(conn_id) THEN NullDeref("udp_send", conn_id)
       ELSE IF ~UdpSendPre(g_conns[conn_id]) THEN Abort("udp_send", conn_id)
       ELSE LET conn == g_conns[conn_id] IN
            \E sent_bytes \in SendtoResults(os_fds, conn.fd, len) :
               /\ g_conns' = [g_conns EXCEPT ![conn_id] = UdpSent(@, sent_bytes)]
               /\ last' = Returned("udp_send", conn_id, sent_bytes,
                                   <<Sys("sendto", os_fds, conn.fd, conn_id)>>,
                                   IF sent_bytes < 0 THEN "sendto" ELSE "",
                                   SendHexdump(sent_bytes),
                                   [addr |-> conn.sin_oth.addr, port |-> conn.sin_oth.port])
               /\ UNCHANGED <<g_conn_count, os_fds, status, ghost, thr>>

\* mutant: receive asserts only that the record is initialised, whatever its role
UdpReceivePreAnyRole(conn) == conn.state # NETWORK_CONN_STATE_UNITIALIZED

\* the assert of receive: a server in any initialised state, a client connected
UdpReceivePre(conn) ==
    \/ conn.server /\ conn.state # NETWORK_CONN_STATE_UNITIALIZED
    \/ ~conn.server /\ conn.state = NETWORK_CONN_STATE_CONNECTED

\* recvfrom() / recv(): what arrives within the timeout.  A descriptor that
\* is not open gives EBADF; an open one gives a datagram of n <= len bytes
\* from some sender, the timeout (EAGAIN) or another error.
RecvResults(tbl, fd, len) ==
    IF IsOpen(tbl, fd)
    THEN [n : 0 .. len, errno : {"none"}, from : Peers]
         \cup [n : {-1}, errno : {"EAGAIN", "EIO"}, from : {NoPeer}]
    ELSE [n : {-1}, errno : {"EBADF"}, from : {NoPeer}]

\* what perror() is called with after recvfrom() / recv() failed
\* mutant: every failed receive is logged, the timeout included
RecvPerrorAlways(errno) == "recvfrom"

RecvPerror(errno) == IF errno # "EAGAIN" /\ errno # "EWOULDBLOCK" THEN "recvfrom" ELSE ""

\* whether a successful receive records the sender as the peer
\* mutant: a server rebinds its peer on every received datagram
UdpLazyBindAlways(conn) == conn.server

UdpLazyBind(conn) == conn.server /\ conn.state = NETWORK_CONN_STATE_DISCONNECTED

\* mutant: the lazy binding copies the sender but not the address length
UdpReceivedNoLen(conn, from) ==
    IF UdpLazyBind(conn)
    THEN [conn EXCEPT !.sin_oth = [family |-> "AF_INET", addr |-> from.addr,
                                   port |-> from.port],
                      !.state = NETWORK_CONN_STATE_CONNECTED]
    ELSE conn

\* the record after a successful receive of a datagram from `from`
UdpReceived(conn, from) ==
    IF UdpLazyBind(conn) THEN UdpConnected(conn, from.addr, from.port) ELSE conn

network_udp_receive(conn_id, len) ==
    /\ status = "running"
    /\ IF ~InTable(conn_id) THEN NullDeref("udp_receive", conn_id)
       ELSE IF ~UdpReceivePre(g_conns[conn_id]) THEN Abort("udp_receive", conn_id)
       ELSE LET conn == g_conns[conn_id]
                sys == <<Sys("recvfrom", os_fds, conn.fd, conn_id)>> IN
            \E r \in RecvResults(os_fds, conn.fd, len) :
               /\ IF r.n < 0
                  THEN /\ last' = [Returned("udp_receive", conn_id, -1, sys,
                                            RecvPerror(r.errno), FALSE, NoPeer)
                                   EXCEPT !.errno = r.errno]
                       /\ g_conns' = g_conns
                  ELSE /\ last' = Returned("udp_receive", conn_id, r.n, sys, "", TRUE, r.from)
                       /\ g_conns' = [g_conns EXCEPT ![conn_id] = UdpReceived(@, r.from)]
               /\ UNCHANGED <<g_conn_count, os_fds, status, ghost, thr>>

\* assert(conn->state == NETWORK_CONN_STATE_CONNECTED) of disconnect
UdpDisconnectPre(conn) == conn.state = NETWORK_CONN_STATE_CONNECTED

network_udp_disconnect(conn_id) ==
    /\ status = "running"
    /\ IF ~InTable(conn_id) THEN NullDeref("udp_disconnect", conn_id)
       ELSE IF ~UdpDisconnectPre(g_conns[conn_id]) THEN Abort("udp_disconnect", conn_id)
       ELSE /\ g_conns' = [g_conns EXCEPT ![conn_id].state = NETWORK_CONN_STATE_DISCONNECTED]
            /\ last' = Returned("udp_disconnect", conn_id, 0, <<>>, "", FALSE, NoPeer)
            /\ UNCHANGED <<g_conn_count, os_fds, status, ghost, thr>>

\* assert(conn->state == NETWORK_CONN_STATE_DISCONNECTED) of free
UdpFreePre(conn) == conn.state = NETWORK_CONN_STATE_DISCONNECTED

\* the descriptor table after free
UdpFreeFds(tbl, fd) == OsClose(tbl, fd)

network_udp_free(conn_id) ==
    /\ status = "running"
    /\ IF ~InTable(conn_id) THEN NullDeref("udp_free", conn_id)
       ELSE IF ~UdpFreePre(g_conns[conn_id]) THEN Abort("udp_free", conn_id)
       ELSE LET conn == g_conns[conn_id] IN
            /\ os_fds' = UdpFreeFds(os_fds, conn.fd)
            /\ g_conns' = [g_conns EXCEPT ![conn_id].state = NETWORK_CONN_STATE_UNITIALIZED]
            /\ ghost' = [ghost EXCEPT ![conn_id].life = "freed",
                                      ![conn_id].nclose = @ + 1]
            /\ last' = Returned("udp_free", conn_id, 0,
                                <<Sys("close", os_fds, conn.fd, conn_id)>>, "", FALSE, NoPeer)
            /\ UNCHANGED <<g_conn_count, status, thr>>


(* ---- TCP -------------------------------------------------------------- *)
\* the descriptor table after the bind failure path: perror, close(conn->fd)
TcpBindFailedFds(tbl, fd) == OsClose(tbl, fd)

\* conn->server = false: the flag given to network_tcp_init_conn is dropped
\* mutant: TCP init stores the is_server argument in the record
TcpServerFlagKept(server) == server

TcpServerFlag(server) == FALSE

\* network_tcp_init_conn after conn_id has been allocated
TcpInitBody(conn_id, port, server) ==
    IF ~InTable(conn_id) THEN InitOutOfTable("tcp_init", conn_id)
    ELSE IF ~InitPre(g_conns[conn_id])
    THEN /\ status' = "aborted"
         /\ last' = Aborted("tcp_init", conn_id)
         /\ UNCHANGED <<g_conns, os_fds, ghost>>
    ELSE \E fd \in SocketResults(os_fds) :
        IF fd = -1
        THEN /\ g_conns' = [g_conns EXCEPT ![conn_id].fd = -1]
             /\ ghost' = [ghost EXCEPT ![conn_id].life = "failed"]
             /\ last' = Returned("tcp_init", conn_id, -1,
                                 <<Sys("socket", os_fds, -1, conn_id)>>, "socket", FALSE, NoPeer)
             /\ UNCHANGED <<os_fds, status>>
        ELSE LET conn == [g_conns[conn_id] EXCEPT
                             !.fd = fd, !.server = TcpServerFlag(server),
                             !.sin_me = [family |-> "AF_INET", addr |-> 0, port |-> port]]
                 opened == OsSetReuse(OsSetTimeouts(OsSocket(os_fds, fd, "tcp", conn_id), fd), fd)
                 sock == Sys("socket", opened, fd, conn_id)
             IN  \E ok \in (IF port > 0 THEN BindResults(opened, fd, port) ELSE {TRUE}) :
                    /\ status' = status
                    /\ IF ok
                       THEN /\ g_conns' = [g_conns EXCEPT ![conn_id] =
                                   [conn EXCEPT !.state = NETWORK_CONN_STATE_DISCONNECTED]]
                            /\ os_fds' = (IF port > 0 THEN OsBind(opened, fd, port) ELSE opened)
                            /\ ghost' = [ghost EXCEPT ![conn_id].kind = "tcp",
                                                      ![conn_id].life = "live"]
                            /\ last' = Returned("tcp_init", conn_id, conn_id,
                                   IF port > 0 THEN <<sock, Sys("bind", opened, fd, conn_id)>>
                                   ELSE <<sock>>, "", FALSE, NoPeer)
                       ELSE /\ g_conns' = [g_conns EXCEPT ![conn_id] = conn]
                            /\ os_fds' = TcpBindFailedFds(opened, fd)
                            /\ ghost' = [ghost EXCEPT ![conn_id].life = "failed"]
                            /\ last' = Returned("tcp_init", conn_id, -1,
                                   <<sock, Sys("bind", opened, fd, conn_id),
                                     Sys("close", opened, fd, conn_id)>>, "bind", FALSE, NoPeer)

network_tcp_init_conn(port, server) ==
    /\ status = "running"
    /\ g_conn_count' = FetchAdd(g_conn_count)
    /\ TcpInitBody(g_conn_count, port, server)
    /\ UNCHANGED thr

\* assert(conn->state == NETWORK_CONN_STATE_DISCONNECTED) of connect
TcpConnectPre(conn) == conn.state = NETWORK_CONN_STATE_DISCONNECTED

\* mutant: the record is marked Connected whatever connect() returned
TcpConnectStateAlways(conn, ok) == NETWORK_CONN_STATE_CONNECTED

\* the state of the record after connect() returned ok
TcpConnectState(conn, ok) ==
    IF ok THEN NETWORK_CONN_STATE_CONNECTED ELSE conn.state

network_tcp_connect(conn_id, addr, port) ==
    /\ status = "running"
    /\ IF ~InTable(conn_id) THEN NullDeref("tcp_connect", conn_id)
       ELSE IF ~TcpConnectPre(g_conns[conn_id]) THEN Abort("tcp_connect", conn_id)
       ELSE LET conn == [g_conns[conn_id] EXCEPT
                            !.sin_oth = [family |-> "AF_INET", addr |-> addr, port |-> port],
                            !.slen = SOCKADDR_IN_SIZE] IN
            \E ok \in ConnectResults(os_fds, conn.fd) :
               /\ g_conns' = [g_conns EXCEPT ![conn_id] =
                                 [conn EXCEPT !.state = TcpConnectState(conn, ok)]]
               /\ os_fds' = (IF ok THEN OsConnect(os_fds, conn.fd) ELSE os_fds)
               /\ last' = Returned("tcp_connect", conn_id, IF ok THEN 0 ELSE -1,
                                   <<Sys("connect", os_fds, conn.fd, conn_id)>>,
                                   IF ok THEN "" ELSE "connect", FALSE,
                                   [addr |-> addr, port |-> port])
               /\ UNCHANGED <<g_conn_count, status, ghost, thr>>

\* assert(conn->state == NETWORK_CONN_STATE_CONNECTED) of send
TcpSendPre(conn) == conn.state = NETWORK_CONN_STATE_CONNECTED

\* send(): -1, or the bytes written (1 .. len); -1 on a descriptor that is
\* not open (EBADF) or not connected (ENOTCONN)
SendResults(tbl, fd, len) ==
    IF IsOpen(tbl, fd) /\ tbl[fd].connected THEN {-1} \cup (1 .. len) ELSE {-1}

\* the record after a send
TcpSent(conn, sent_bytes) == conn

network_tcp_send(conn_id, len) ==
    /\ status = "running"
    /\ IF ~InTable(conn_id) THEN NullDeref("tcp_send", conn_id)
       ELSE IF ~TcpSendPre(g_conns[conn_id]) THEN Abort("tcp_send", conn_id)
       ELSE LET conn == g_conns[conn_id] IN
            \E sent_bytes \in SendResults(os_fds, conn.fd, len) :
               /\ g_conns' = [g_conns EXCEPT ![conn_id] = TcpSent(@, sent_bytes)]
               /\ last' = Returned("tcp_send", conn_id, sent_bytes,
                                   <<Sys("send", os_fds, conn.fd, conn_id)>>,
                                   IF sent_bytes < 0 THEN "sendto" ELSE "",
                                   SendHexdump(sent_bytes),
                                   [addr |-> conn.sin_oth.addr, port |-> conn.sin_oth.port])
               /\ UNCHANGED <<g_conn_count, os_fds, status, ghost, thr>>

\* assert(conn->state == NETWORK_CONN_STATE_CONNECTED) of receive
TcpReceivePre(conn) == conn.state = NETWORK_CONN_STATE_CONNECTED

\* the record after a successful receive
TcpReceived(conn) == conn

network_tcp_receive(conn_id, len) ==
    /\ status = "running"
    /\ IF ~InTable(conn_id) THEN NullDeref("tcp_receive", conn_id)
       ELSE IF ~TcpReceivePre(g_conns[conn_id]) THEN Abort("tcp_receive", conn_id)
       ELSE LET conn == g_conns[conn_id]
                sys == <<Sys("recv", os_fds, conn.fd, conn_id)>>
                peer == [addr |-> conn.sin_oth.addr, port |-> conn.sin_oth.port] IN
            \E r \in {x \in RecvResults(os_fds, conn.fd, len) : x.from \in {NoPeer, peer}} :
               /\ IF r.n < 0
                  THEN /\ last' = [Returned("tcp_receive", conn_id, -1, sys,
                                            RecvPerror(r.errno), FALSE, NoPeer)
                                   EXCEPT !.errno = r.errno]
                       /\ g_conns' = g_conns
                  ELSE /\ last' = Returned("tcp_receive", conn_id, r.n, sys, "", TRUE, peer)
                       /\ g_conns' = [g_conns EXCEPT ![conn_id] = TcpReceived(@)]
               /\ UNCHANGED <<g_conn_count, os_fds, status, ghost, thr>>

\* assert(conn->state == NETWORK_CONN_STATE_CONNECTED) of disconnect
TcpDisconnectPre(conn) == conn.state = NETWORK_CONN_STATE_CONNECTED

\* the descriptor table after disconnect
TcpDisconnectFds(tbl, fd) == OsClose(tbl, fd)

network_tcp_disconnect(conn_id) ==
    /\ status = "running"
    /\ IF ~InTable(conn_id) THEN NullDeref("tcp_disconnect", conn_id)
       ELSE IF ~TcpDisconnectPre(g_conns[conn_id]) THEN Abort("tcp_disconnect", conn_id)
       ELSE LET conn == g_conns[conn_id] IN
            /\ os_fds' = TcpDisconnectFds(os_fds, conn.fd)
            /\ g_conns' = [g_conns EXCEPT ![conn_id].state = NETWORK_CONN_STATE_DISCONNECTED]
            /\ ghost' = [ghost EXCEPT ![conn_id].nclose = @ + 1]
            /\ last' = Returned("tcp_disconnect", conn_id, 0,
                                <<Sys("close", os_fds, conn.fd, conn_id)>>, "", FALSE, NoPeer)
            /\ UNCHANGED <<g_conn_count, status, thr>>

\* assert(conn->state == NETWORK_CONN_STATE_DISCONNECTED) of free
TcpFreePre(conn) == conn.state = NETWORK_CONN_STATE_DISCONNECTED

\* the descriptor table after free: no close()
TcpFreeFds(tbl, fd) == tbl

network_tcp_free(conn_id) ==
    /\ status = "running"
    /\ IF ~InTable(conn_id) THEN NullDeref("tcp_free", conn_id)
       ELSE IF ~TcpFreePre(g_conns[conn_id]) THEN Abort("tcp_free", conn_id)
       ELSE LET conn == g_conns[conn_id] IN
            /\ os_fds' = TcpFreeFds(os_fds, conn.fd)
            /\ g_conns' = [g_conns EXCEPT ![conn_id].state = NETWORK_CONN_STATE_UNITIALIZED]
            /\ ghost' = [ghost EXCEPT ![conn_id].life = "freed"]
            /\ last' = Returned("tcp_free", conn_id, 0, <<>>, "", FALSE, NoPeer)
            /\ UNCHANGED <<g_conn_count, status, thr>>

(* ---- the sequential program ------------------------------------------- *)
\* the caller uses the functions of the transport the handle was created for
KindOk(conn_id, kind) == InTable(conn_id) => ghost[conn_id].kind \in {"none", kind}

\* init is called while the model's bound on init calls allows it
UdpInit ==
    /\ g_conn_count < MaxInits
    /\ \E port \in InitPorts, server \in BOOLEAN : network_udp_init_conn(port, server)

TcpInit ==
    /\ g_conn_count < MaxInits
    /\ \E port \in InitPorts, server \in BOOLEAN : network_tcp_init_conn(port, server)

UdpConnect ==
    \E h \in HandleInputs, p \in Peers :
        KindOk(h, "udp") /\ network_udp_connect(h, p.addr, p.port)

UdpSend ==
    \E h \in HandleInputs : KindOk(h, "udp") /\ network_udp_send(h, MaxLen)

UdpReceive ==
    \E h \in HandleInputs : KindOk(h, "udp") /\ network_udp_receive(h, MaxLen)

UdpDisconnect ==
    \E h \in HandleInputs : KindOk(h, "udp") /\ network_udp_disconnect(h)

UdpFree ==
    \E h \in HandleInputs : KindOk(h, "udp") /\ network_udp_free(h)

TcpConnect ==
    \E h \in HandleInputs, p \in Peers :
        KindOk(h, "tcp") /\ network_tcp_connect(h, p.addr, p.port)

TcpSend ==
    \E h \in HandleInputs : KindOk(h, "tcp") /\ network_tcp_send(h, MaxLen)

TcpReceive ==
    \E h \in HandleInputs : KindOk(h, "tcp") /\ network_tcp_receive(h, MaxLen)

TcpDisconnect ==
    \E h \in HandleInputs : KindOk(h, "tcp") /\ network_tcp_disconnect(h)

TcpFree ==
    \E h \in HandleInputs : KindOk(h, "tcp") /\ network_tcp_free(h)

Next ==
    \/ UdpInit
    \/ UdpConnect
    \/ UdpSend
    \/ UdpReceive
    \/ UdpDisconnect
    \/ UdpFree
    \/ TcpInit
    \/ TcpConnect
    \/ TcpSend
    \/ TcpReceive
    \/ TcpDisconnect
    \/ TcpFree

Spec == Init /\ [][Next]_vars

(* ---- the table filled to capacity -------------------------------------- *)
\* init calls up to the one after the table is full; no port is bound
CapUdpInit ==
    /\ g_conn_count <= MAX_NETWORK_CONNECTIONS
    /\ \E server \in BOOLEAN : network_udp_init_conn(0, server)

CapTcpInit ==
    /\ g_conn_count <= MAX_NETWORK_CONNECTIONS
    /\ network_tcp_init_conn(0, FALSE)

NextCap ==
    \/ CapUdpInit
    \/ CapTcpInit

SpecCap == Init /\ [][NextCap]_vars

(* ---- init called from several threads --------------------------------- *)
\* conn_id = atomic_fetch_add(&g_conn_count, 1): one atomic step of thread t
ThreadAlloc(t, proto) ==
    /\ status = "running"
    /\ thr[t].pc = "idle"
    /\ g_conn_count' = FetchAdd(g_conn_count)
    /\ thr' = [thr EXCEPT ![t] = [pc |-> "body", conn_id |-> g_conn_count,
                                  proto |-> proto]]
    /\ UNCHANGED <<g_conns, os_fds, status, ghost, last>>

\* the rest of the call, on the record the thread was given
ThreadInitBody(t, port, server) ==
    /\ status = "running"
    /\ thr[t].pc = "body"
    /\ IF thr[t].proto = "udp"
       THEN UdpInitBody(thr[t].conn_id, port, server)
       ELSE TcpInitBody(thr[t].conn_id, port, server)
    /\ thr' = [thr EXCEPT ![t].pc = "idle"]
    /\ UNCHANGED g_conn_count

\* init is entered while the model's bound on init calls allows it
ConcAlloc ==
    /\ g_conn_count < MaxInits
    /\ \E t \in Threads, proto \in {"udp", "tcp"} : ThreadAlloc(t, proto)

ConcBody == \E t \in Threads, port \in InitPorts, server \in BOOLEAN : ThreadInitBody(t, port, server)

NextConc ==
    \/ ConcAlloc
    \/ ConcBody

SpecConc == Init /\ [][NextConc]_vars

(* ======================================================================= *)
(* Properties                                                              *)
(* ======================================================================= *)
InitOps == {"udp_init", "tcp_init"}
ConnectOps == {"udp_connect", "tcp_connect"}
SendOps == {"udp_send", "tcp_send"}
DisconnectOps == {"udp_disconnect", "tcp_disconnect"}
FreeOps == {"udp_free", "tcp_free"}

\* C1: a record's state changes only along Uninitialized -> Disconnected (a
\* successful init that allocated the record), Disconnected -> Connected (a
\* successful connect, or a successful receive on a datagram server),
\* Connected -> Disconnected (disconnect), Disconnected -> Uninitialized
\* (free); send changes no state.
C1_StateEdges ==
    [][\A h \in TableIdx :
        LET a == g_conns[h].state
            b == g_conns'[h].state
            c == last'
        IN  a # b =>
              /\ c.conn_id = h
              /\ c.outcome = "returned"
              /\ \/ /\ a = NETWORK_CONN_STATE_UNITIALIZED
                    /\ b = NETWORK_CONN_STATE_DISCONNECTED
                    /\ c.op \in InitOps /\ c.ret = h
                 \/ /\ a = NETWORK_CONN_STATE_DISCONNECTED
                    /\ b = NETWORK_CONN_STATE_CONNECTED
                    /\ \/ c.op \in ConnectOps /\ c.ret = 0
                       \/ c.op = "udp_receive" /\ c.ret >= 0 /\ g_conns[h].server
                 \/ /\ a = NETWORK_CONN_STATE_CONNECTED
                    /\ b = NETWORK_CONN_STATE_DISCONNECTED
                    /\ c.op \in DisconnectOps
                 \/ /\ a = NETWORK_CONN_STATE_DISCONNECTED
                    /\ b = NETWORK_CONN_STATE_UNITIALIZED
                    /\ c.op \in FreeOps]_vars

\* one record bound lazily by a receive while another went through init,
\* connect, disconnect and free
C1_Witness ==
    /\ last.op = "udp_receive" /\ last.ret >= 0
    /\ last.pre = NETWORK_CONN_STATE_DISCONNECTED
    /\ g_conns[last.conn_id].state = NETWORK_CONN_STATE_CONNECTED
    /\ \E h \in TableIdx :
          /\ ghost[h].life = "freed"
          /\ g_conns[h].slen = SOCKADDR_IN_SIZE
          /\ g_conns[h].state = NETWORK_CONN_STATE_UNITIALIZED

\* the state each operation requires of the record ("any": no single state)
RequiredState(op) ==
    IF op \in ConnectOps \cup FreeOps THEN NETWORK_CONN_STATE_DISCONNECTED
    ELSE IF op \in SendOps \cup DisconnectOps \cup {"tcp_receive"}
    THEN NETWORK_CONN_STATE_CONNECTED
    ELSE "any"

\* C2: for a handle in 0..31, connect or free on a record that is not
\* Disconnected, and send, disconnect or TCP receive on a record that is not
\* Connected, aborts the program with no socket call made and no record,
\* descriptor or counter modified.
C2_WrongStateAborts ==
    [][\A h \in TableIdx :
        (/\ last'.conn_id = h
         /\ RequiredState(last'.op) # "any"
         /\ g_conns[h].state # RequiredState(last'.op))
        => /\ last'.outcome = "aborted"
           /\ status' = "aborted"
           /\ last'.sys = <<>>
           /\ g_conns' = g_conns
           /\ os_fds' = os_fds
           /\ g_conn_count' = g_conn_count]_vars

\* send after disconnect: aborted on a record that had been connected
C2_Witness ==
    /\ status = "aborted"
    /\ last.op = "udp_send"
    /\ InTable(last.conn_id)
    /\ g_conns[last.conn_id].state = NETWORK_CONN_STATE_DISCONNECTED
    /\ g_conns[last.conn_id].slen = SOCKADDR_IN_SIZE

\* the record connect leaves: the peer endpoint, the peer length, Connected
ConnectedTo(conn, peer) ==
    [conn EXCEPT !.state = NETWORK_CONN_STATE_CONNECTED,
                 !.sin_oth = [family |-> "AF_INET", addr |-> peer.addr, port |-> peer.port],
                 !.slen = SOCKADDR_IN_SIZE]

\* C3: a receive on a Disconnected datagram server that fails or times out
\* leaves the record as it was; one that returns data leaves the record
\* Connected with the datagram's sender as its peer, the same record a
\* connect to that sender leaves.
C3_LazyPeerBinding ==
    [][\A h \in TableIdx :
        LET c == last' IN
        /\ (/\ c.op = "udp_receive" /\ c.conn_id = h /\ c.outcome = "returned"
            /\ g_conns[h].server
            /\ g_conns[h].state = NETWORK_CONN_STATE_DISCONNECTED)
           => g_conns'[h] = (IF c.ret < 0 THEN g_conns[h] ELSE ConnectedTo(g_conns[h], c.peer))
        /\ (c.op = "udp_connect" /\ c.conn_id = h /\ c.outcome = "returned")
           => g_conns'[h] = ConnectedTo(g_conns[h], c.peer)]_vars

\* a server bound by a receive after a disconnect from the other peer
C3_Witness ==
    /\ last.op = "udp_receive" /\ last.ret >= 0
    /\ last.pre = NETWORK_CONN_STATE_DISCONNECTED
    /\ InTable(last.conn_id)
    /\ g_conns[last.conn_id].server
    /\ g_conns[last.conn_id].state = NETWORK_CONN_STATE_CONNECTED
    /\ g_conns[last.conn_id].sin_oth.addr = last.peer.addr
    /\ g_conns[last.conn_id].sin_oth.port = last.peer.port

\* C4: an init that returns failure leaves its record Uninitialized, leaves
\* every other record as it was and leaves the descriptor table as it was
\* (the descriptor it opened is closed again, no other one is touched).
C4_FailedInit ==
    [][(/\ last'.op \in InitOps
        /\ last'.outcome = "returned"
        /\ last'.ret = -1)
       => LET id == last'.conn_id IN
          /\ InTable(id)
          /\ g_conns'[id].state = NETWORK_CONN_STATE_UNITIALIZED
          /\ \A fd \in SockFds : ~(os_fds'[fd].open /\ os_fds'[fd].owner = id)
          /\ \A h \in TableIdx \ {id} : g_conns'[h] = g_conns[h]
          /\ os_fds' = os_fds]_vars

\* the second init fails to bind the port the first record holds
C4_Witness ==
    /\ last.op = "udp_init" /\ last.ret = -1 /\ last.perror = "bind"
    /\ last.conn_id = 1
    /\ g_conns[0].state = NETWORK_CONN_STATE_DISCONNECTED
    /\ g_conns[0].sin_me.port = g_conns[1].sin_me.port
    /\ IsOpen(os_fds, g_conns[0].fd)
    /\ os_fds[g_conns[0].fd].port = g_conns[1].sin_me.port

\* C5: once 32 handles have been allocated, a further init call returns
\* failure; it does not go on to access a record outside the table and does
\* not return a handle >= 32.
C5_CapacityRespected ==
    (last.op \in InitOps /\ g_conn_count > MAX_NETWORK_CONNECTIONS)
    => /\ last.outcome = "returned"
       /\ last.ret = -1

\* C6: a thread's init is given a handle that no earlier call was given and
\* that no call in progress holds.
C6_DistinctHandles ==
    [][\A t \in Threads :
        (thr[t].pc = "idle" /\ thr'[t].pc = "body")
        => LET id == thr'[t].conn_id IN
           /\ InTable(id)
           /\ ghost[id].life = "never"
           /\ g_conns[id].state = NETWORK_CONN_STATE_UNITIALIZED
           /\ \A u \in Threads \ {t} : thr[u].pc = "body" => thr[u].conn_id # id]_vars

\* two calls in progress at once, the second thread holding the earlier handle
C6_Witness ==
    /\ thr[1].pc = "body" /\ thr[2].pc = "body"
    /\ thr[1].conn_id = 1 /\ thr[2].conn_id = 0
    /\ g_conn_count = 2

\* C7: the counter never decreases and grows by one with every init call,
\* whatever has been freed; a freed record stays Uninitialized and no later
\* init returns its handle.
C7_NoHandleReuse ==
    [][/\ g_conn_count' >= g_conn_count
       /\ (last'.op \in InitOps /\ last'.outcome = "returned")
          => /\ g_conn_count' = g_conn_count + 1
             /\ last'.conn_id = g_conn_count
             /\ last'.ret \in {-1, g_conn_count}
       /\ last'.op \in FreeOps => g_conn_count' = g_conn_count
       /\ \A h \in TableIdx :
             ghost[h].life = "freed"
             => /\ g_conns'[h].state = NETWORK_CONN_STATE_UNITIALIZED
                /\ ghost'[h].life = "freed"
                /\ h < g_conn_count
                /\ ~(last'.op \in InitOps /\ last'.conn_id = h)]_vars

\* handle 0 was freed and the next init was given handle 1
C7_Witness ==
    /\ ghost[0].life = "freed"
    /\ g_conns[0].state = NETWORK_CONN_STATE_UNITIALIZED
    /\ last.op \in InitOps /\ last.conn_id = 1 /\ last.ret = 1
    /\ g_conn_count = 2

\* the socket created by the init of record h is open
OwnSocketOpen(h) == \E fd \in SockFds : os_fds[fd].open /\ os_fds[fd].owner = h

\* C8: a record created by a successful init and returned to Uninitialized
\* by free has had its descriptor closed exactly once.
C8_ClosedExactlyOnce ==
    \A h \in TableIdx :
        ghost[h].life = "freed" => ghost[h].nclose = 1 /\ ~OwnSocketOpen(h)

\* C9: every record that is Disconnected or Connected holds an open
\* descriptor of its own.
C9_OneOpenDescriptor ==
    \A h \in TableIdx :
        g_conns[h].state # NETWORK_CONN_STATE_UNITIALIZED
        => /\ IsOpen(os_fds, g_conns[h].fd)
           /\ os_fds[g_conns[h].fd].owner = h

\* C10: no two records that are not Uninitialized refer to the same
\* descriptor, and no call on a record acts on an open descriptor that
\* belongs to another record.
C10_ExclusiveDescriptor ==
    /\ \A h1, h2 \in TableIdx :
          (/\ h1 # h2
           /\ g_conns[h1].state # NETWORK_CONN_STATE_UNITIALIZED
           /\ g_conns[h2].state # NETWORK_CONN_STATE_UNITIALIZED)
          => g_conns[h1].fd # g_conns[h2].fd
    /\ \A i \in 1 .. Len(last.sys) : last.sys[i].open => last.sys[i].own

HandleOps ==
    ConnectOps \cup SendOps \cup DisconnectOps \cup FreeOps \cup {"udp_receive", "tcp_receive"}

\* C11: an operation given a handle outside 0..31 aborts through its
\* precondition check, as a wrong-state call does, with no socket call made.
C11_InvalidHandleAborts ==
    (last.op \in HandleOps /\ ~InTable(last.conn_id))
    => /\ last.outcome = "aborted"
       /\ status = "aborted"
       /\ last.sys = <<>>

\* C12: UDP receive on a record in 0..31 goes on to recvfrom() exactly when
\* the record is a server that is Disconnected or Connected, or a client that
\* is Connected; otherwise it aborts with no socket call made.
C12_ReceiveByRole ==
    (last.op = "udp_receive" /\ InTable(last.conn_id))
    => LET conn == g_conns[last.conn_id]
           legal == \/ /\ conn.server
                        /\ last.pre \in {NETWORK_CONN_STATE_DISCONNECTED,
                                         NETWORK_CONN_STATE_CONNECTED}
                    \/ /\ ~conn.server
                       /\ last.pre = NETWORK_CONN_STATE_CONNECTED
       IN  IF legal
           THEN /\ last.outcome = "returned"
                /\ Len(last.sys) = 1
                /\ last.sys[1].call = "recvfrom"
           ELSE /\ last.outcome = "aborted"
                /\ status = "aborted"
                /\ last.sys = <<>>
                /\ conn.state = last.pre

\* a client's receive while Disconnected has aborted
C12_Witness ==
    /\ last.op = "udp_receive" /\ last.outcome = "aborted"
    /\ InTable(last.conn_id)
    /\ ~g_conns[last.conn_id].server
    /\ ghost[last.conn_id].kind = "udp"
    /\ last.pre = NETWORK_CONN_STATE_DISCONNECTED

\* C13: a TCP connect that returns has made one connect() call; when it failed
\* it returned -1, logged, and the record is Disconnected; when it succeeded it
\* returned 0 and the record is Connected to the given address and port. A UDP
\* connect on a Disconnected record returns 0 with no socket call and leaves
\* the record Connected to the given address and port.
C13_ConnectOutcomes ==
    /\ (last.op = "tcp_connect" /\ last.outcome = "returned")
       => LET conn == g_conns[last.conn_id] IN
          /\ Len(last.sys) = 1 /\ last.sys[1].call = "connect"
          /\ last.pre = NETWORK_CONN_STATE_DISCONNECTED
          /\ \/ /\ last.ret = -1
                /\ last.perror = "connect"
                /\ conn.state = NETWORK_CONN_STATE_DISCONNECTED
             \/ /\ last.ret = 0
                /\ last.perror = ""
                /\ conn = ConnectedTo(conn, last.peer)
    /\ (/\ last.op = "udp_connect" /\ InTable(last.conn_id)
        /\ last.pre = NETWORK_CONN_STATE_DISCONNECTED)
       => LET conn == g_conns[last.conn_id] IN
          /\ last.outcome = "returned"
          /\ last.ret = 0
          /\ last.sys = <<>>
          /\ conn = ConnectedTo(conn, last.peer)

\* a TCP connect on the record's open socket has failed
C13_Witness ==
    /\ last.op = "tcp_connect" /\ last.outcome = "returned"
    /\ last.ret = -1
    /\ last.sys[1].open /\ last.sys[1].own
    /\ g_conns[last.conn_id].state = NETWORK_CONN_STATE_DISCONNECTED

\* C14: a send step (UDP or TCP) that returned a negative result has logged
\* the error and changed no record and no descriptor; the record is still
\* Connected, so the preconditions of send and of disconnect hold after it.
C14_FailedSendFrame ==
    [][(last'.op \in SendOps /\ last'.outcome = "returned" /\ last'.ret < 0)
       => /\ last'.perror = "sendto"
          /\ g_conns' = g_conns
          /\ os_fds' = os_fds
          /\ LET conn == g_conns'[last'.conn_id] IN
             /\ conn.state = NETWORK_CONN_STATE_CONNECTED
             /\ IF last'.op = "udp_send"
                THEN UdpSendPre(conn) /\ UdpDisconnectPre(conn)
                ELSE TcpSendPre(conn) /\ TcpDisconnectPre(conn)]_vars

\* a UDP send on the record's open socket has failed and the record is Connected
C14_Witness ==
    /\ last.op = "udp_send" /\ last.outcome = "returned"
    /\ last.ret < 0 /\ last.perror = "sendto"
    /\ last.sys[1].open /\ last.sys[1].own
    /\ g_conns[last.conn_id].state = NETWORK_CONN_STATE_CONNECTED

ReceiveOps == {"udp_receive", "tcp_receive"}
TimeoutErrnos == {"EAGAIN", "EWOULDBLOCK"}

\* C15: a receive step (UDP or TCP) that failed returned -1; it logged nothing
\* when errno was EAGAIN/EWOULDBLOCK and logged the error for any other errno;
\* either way no record changed (state and peer endpoint are as before).
C15_FailedReceive ==
    [][(last'.op \in ReceiveOps /\ last'.outcome = "returned" /\ last'.ret < 0)
       => /\ last'.ret = -1
          /\ last'.errno # "none"
          /\ (last'.errno \in TimeoutErrnos) => (last'.perror = "")
          /\ (last'.errno \notin TimeoutErrnos) => (last'.perror = "recvfrom")
          /\ g_conns' = g_conns
          /\ g_conns'[last'.conn_id].state = last'.pre]_vars

\* a Disconnected datagram server has timed out in receive and is still Disconnected
C15_Witness ==
    /\ last.op = "udp_receive" /\ last.outcome = "returned"
    /\ last.ret = -1 /\ last.errno = "EAGAIN" /\ last.perror = ""
    /\ g_conns[last.conn_id].server
    /\ g_conns[last.conn_id].state = NETWORK_CONN_STATE_DISCONNECTED

\* C16: a step is a TCP init with is_server = TRUE exactly when it is a TCP
\* init with is_server = FALSE (same records, descriptors and result), so runs
\* that differ only in that flag coincide step for step; no TCP record holds
\* the server role, and a TCP receive goes on exactly when the record was
\* Connected and never changes the record (no lazy peer binding).
C16_TcpServerFlagIgnored ==
    [][/\ \A port \in InitPorts :
             network_tcp_init_conn(port, TRUE) <=> network_tcp_init_conn(port, FALSE)
       /\ \A h \in TableIdx : (ghost'[h].kind = "tcp") => ~g_conns'[h].server
       /\ (last'.op = "tcp_receive" /\ InTable(last'.conn_id))
          => /\ g_conns' = g_conns
             /\ IF last'.pre = NETWORK_CONN_STATE_CONNECTED
                THEN last'.outcome = "returned"
                ELSE last'.outcome = "aborted" /\ last'.sys = <<>>]_vars

\* a TCP record left Disconnected by init has had its receive aborted
C16_Witness ==
    /\ last.op = "tcp_receive" /\ last.outcome = "aborted"
    /\ InTable(last.conn_id)
    /\ ghost[last.conn_id].kind = "tcp"
    /\ last.pre = NETWORK_CONN_STATE_DISCONNECTED
    /\ ~g_conns[last.conn_id].server
    /\ g_conns[last.conn_id].sin_oth = ZeroAddr

\* C17 as stated: every send or receive that returned, successfully or after
\* logging an error, has emitted its trace; only a receive that failed without
\* logging (the timeout) has emitted none.
C17_TraceUnlessSilent ==
    (last.op \in SendOps \cup ReceiveOps /\ last.outcome = "returned")
    => (last.hexdump <=> ~(last.op \in ReceiveOps /\ last.ret < 0 /\ last.perror = ""))

\* C17, amended: every send that returned (successfully or after logging an
\* error) and every receive that returned data has emitted its trace; a
\* receive that failed, silently or after logging, has emitted none, and no
\* other operation emits one.
C17_TraceUnlessReceiveFailed ==
    /\ (last.op \in SendOps \cup ReceiveOps /\ last.outcome = "returned")
       => (last.hexdump <=> (last.op \in SendOps \/ last.ret >= 0))
    /\ (last.op \notin SendOps \cup ReceiveOps \/ last.outcome # "returned")
       => ~last.hexdump

\* a receive has failed with a logged error and emitted no trace
C17_Witness ==
    /\ last.op \in ReceiveOps /\ last.outcome = "returned"
    /\ last.ret < 0 /\ last.perror = "recvfrom"
    /\ last.sys[1].open
    /\ ~last.hexdump

PeerOf(conn) == [addr |-> conn.sin_oth.addr, port |-> conn.sin_oth.port]

\* C18: a UDP receive that returned data on a Connected record leaves the
\* record as it was, whoever the sender is; a UDP send goes to the peer the
\* record holds; a UDP disconnect only sets the state to Disconnected, with no
\* socket call; and a receive that returned data on a Disconnected server
\* leaves it Connected to that datagram's sender.
C18_PeerBoundOnlyWhileDisconnected ==
    [][LET c == last'
           h == last'.conn_id IN
       (c.outcome = "returned" /\ InTable(h)) =>
       /\ (/\ c.op = "udp_receive" /\ c.ret >= 0
           /\ g_conns[h].state = NETWORK_CONN_STATE_CONNECTED)
          => g_conns'[h] = g_conns[h]
       /\ (c.op = "udp_send")
          => /\ c.peer = PeerOf(g_conns[h])
             /\ c.sys[1].call = "sendto"
             /\ g_conns'[h] = g_conns[h]
       /\ (c.op = "udp_disconnect")
          => /\ g_conns'[h] = [g_conns[h] EXCEPT !.state = NETWORK_CONN_STATE_DISCONNECTED]
             /\ c.sys = <<>> /\ os_fds' = os_fds
       /\ (/\ c.op = "udp_receive" /\ c.ret >= 0
           /\ g_conns[h].server
           /\ g_conns[h].state = NETWORK_CONN_STATE_DISCONNECTED)
          => /\ g_conns'[h].state = NETWORK_CONN_STATE_CONNECTED
             /\ PeerOf(g_conns'[h]) = c.peer]_vars

\* a Connected datagram server has received from a sender other than its peer
\* and still holds the earlier peer
C18_Witness ==
    /\ last.op = "udp_receive" /\ last.outcome = "returned" /\ last.ret >= 0
    /\ last.pre = NETWORK_CONN_STATE_CONNECTED
    /\ g_conns[last.conn_id].server
    /\ g_conns[last.conn_id].state = NETWORK_CONN_STATE_CONNECTED
    /\ PeerOf(g_conns[last.conn_id]) \in Peers
    /\ last.peer \in Peers
    /\ last.peer # PeerOf(g_conns[last.conn_id])

\* C19: while no assert has failed, every socket call (connect, send, receive,
\* close) an operation on an initialised record makes is made on a descriptor
\* that is open and is that record's own socket, never on one the record has
\* already closed.
C19_NoCallOnClosedDescriptor ==
    (last.op \in HandleOps /\ last.outcome = "returned" /\ status = "running")
    => \A i \in 1 .. Len(last.sys) : last.sys[i].open /\ last.sys[i].own

\* C20: every init step, failed ones included, advances g_conn_count by one
\* and works on the slot the old count names, returning that handle or -1; no
\* other step changes the count; a slot whose init failed stays failed and
\* Uninitialized and is never the handle a later init returns; every record
\* at an index >= g_conn_count is Uninitialized.
C20_FailedInitConsumesHandle ==
    [][/\ (last'.op \in InitOps /\ last' # last)
          <=> (g_conn_count' # g_conn_count)
       /\ (g_conn_count' # g_conn_count)
          => /\ g_conn_count' = g_conn_count + 1
             /\ last'.conn_id = g_conn_count
             /\ last'.outcome = "returned" => last'.ret \in {-1, g_conn_count}
             /\ (last'.outcome = "returned" /\ last'.ret = -1)
                => /\ ghost'[g_conn_count].life = "failed"
                   /\ g_conns'[g_conn_count].state = NETWORK_CONN_STATE_UNITIALIZED
       /\ \A h \in TableIdx :
             /\ (ghost[h].life = "failed")
                => /\ ghost'[h].life = "failed"
                   /\ g_conns'[h].state = NETWORK_CONN_STATE_UNITIALIZED
                   /\ ~(last'.op \in InitOps /\ last' # last /\ last'.ret = h)
             /\ (h >= g_conn_count')
                => g_conns'[h].state = NETWORK_CONN_STATE_UNITIALIZED]_vars

\* the first init failed, and the second init has returned handle 1
C20_Witness ==
    /\ g_conn_count = 2
    /\ ghost[0].life = "failed"
    /\ g_conns[0].state = NETWORK_CONN_STATE_UNITIALIZED
    /\ last.op \in InitOps /\ last.outcome = "returned" /\ last.ret = 1

Running == status = "running"

====
